---- MODULE Spec2Model ----
(***************************************************************************)
(* NDA checker: the upload route, the analyze route, and the browser-side *)
(* orchestration of the home page with its two FileUpload slots.          *)
(*                                                                         *)
(* Strings the code builds with template literals are sequences of string *)
(* pieces; JSON values are records tagged with their kind, so that a      *)
(* parsed value is never confused with the text it was parsed from.       *)
(***************************************************************************)
EXTENDS Integers, Sequences, FiniteSets, TLC

(***************************************************************************)
(* Bounds of the model.                                                    *)
(***************************************************************************)
\* page counts the document-digitization service reports: 1..MaxPages
MaxPages == 2
\* sizes (in bytes) of the files posted to the upload route: 1..MaxFileSize
MaxFileSize == 2

(***************************************************************************)
(* JavaScript values.                                                      *)
(***************************************************************************)
Roles == {"referenceNda", "customerNda"}

NULL == [kind |-> "null"]

Undefined == [kind |-> "undefined"]

JStr(s) == [kind |-> "string", value |-> s]

JNum(n) == [kind |-> "number", value |-> n]

\* JavaScript truthiness (the ! operator and && / || on values)
Truthy(v) ==
    CASE v.kind = "null" -> FALSE
      [] v.kind = "undefined" -> FALSE
      [] v.kind = "string" -> v.value # ""
      [] v.kind = "number" -> v.value # 0
      [] OTHER -> TRUE

\* obj.name, and the destructuring { name } = obj, of a non-null value
Field(obj, name) ==
    IF obj.kind = "object" /\ name \in DOMAIN obj THEN obj[name] ELSE Undefined

\* a || b on strings
OrElse(a, b) == IF a # "" THEN a ELSE b

\* Response.ok
ResponseOk(status) == status \in 200..299

(***************************************************************************)
(* Environment: the credential and the two upstream services.             *)
(***************************************************************************)
\* process.env.UPSTAGE_API_KEY: a key, or unset
ApiKeys == {"", "up_key"}

\* process.env.UPSTAGE_MODEL_NAME as the README documents it: a model name, or unset
ModelNames == {"", "solar-mini"}

ErrorReplies ==
    { [kind |-> "response", status |-> s, body |-> [kind |-> "text", value |-> t]] :
        s \in {401, 500}, t \in {"Unauthorized", "upstream failure"} }

NetworkError == [kind |-> "networkError", message |-> <<"fetch failed">>]

(***************************************************************************)
(* Upload route: src/app/api/upload/route.ts                               *)
(***************************************************************************)
\* file names as the pieces between the dots: "nda.pdf" is <<"nda", "pdf">>
FileNames ==
    { <<"nda", "pdf">>, <<"nda", "PDF">>, <<"nda", "doc">>, <<"nda", "docx">>,
      <<"nda", "txt">>, <<"nda", "pdf", "txt">>, <<"pdf">>, <<"">> }

\* media types as pieces; String.includes looks for one piece
MediaTypes ==
    { <<"application/", "pdf">>, <<"application/", "msword">>,
      <<"application/vnd.openxmlformats-officedocument.", "wordprocessingml", ".document">>,
      <<"text/", "plain">>, <<>> }

Files ==
    { [kind |-> "file", name |-> n, type |-> t, size |-> z] :
        n \in FileNames, t \in MediaTypes, z \in 1..MaxFileSize }

\* what formData.get can return: null, a string field, or a File
Absent == [kind |-> "null"]

FormFileValues == {Absent, JStr(""), JStr("nda.pdf")} \cup Files

FormTypeValues == {Absent} \cup {JStr(t) : t \in Roles \cup {"", "other"}}

UploadRequests ==
    {[kind |-> "malformed"]}
    \cup { [kind |-> "form", file |-> f, type |-> t] :
             f \in FormFileValues, t \in FormTypeValues }

ToLowerCase(s) ==
    CASE s = "PDF" -> "pdf"
      [] s = "DOC" -> "doc"
      [] s = "DOCX" -> "docx"
      [] OTHER -> s

Includes(pieces, needle) == \E i \in DOMAIN pieces : pieces[i] = needle

allowedTypes == {"pdf", "doc", "docx"}

\* mutant: the piece after the first dot, as split('.')[1] would give
fileExtension_AfterFirstDot(file) ==
    ToLowerCase(file.name[IF Len(file.name) > 1 THEN 2 ELSE 1])

\* file.name.toLowerCase().split('.').pop()
fileExtension(file) == ToLowerCase(file.name[Len(file.name)])

isValidType(file) ==
    \/ fileExtension(file) \in allowedTypes
    \/ Includes(file.type, "pdf")
    \/ Includes(file.type, "msword")
    \/ Includes(file.type, "wordprocessingml")

\* payloads of the document-digitization service
Element == [category |-> "paragraph", id |-> 0, page |-> 1]

WellFormedPayloads ==
    { [kind |-> "object",
       content |-> [html |-> h, markdown |-> "", text |-> t],
       elements |-> e,
       usage |-> [pages |-> p]] :
        h \in {"", "<p>nda</p>"}, t \in {"", "nda"}, e \in {<<>>, <<Element>>},
        p \in 1..MaxPages }

MalformedPayload == [kind |-> "object", api |-> "2.0"]

DocOutcomes ==
    {NetworkError} \cup ErrorReplies
    \cup { [kind |-> "response", status |-> 200, body |-> [kind |-> "json", value |-> p]] :
             p \in WellFormedPayloads \cup {MalformedPayload} }
    \cup { [kind |-> "response", status |-> 200,
            body |-> [kind |-> "text", value |-> "<html>gateway</html>"]] }

Returned(v, calls) == [ok |-> TRUE, value |-> v, calls |-> calls]

Thrown(message, calls) == [ok |-> FALSE, message |-> message, calls |-> calls]

KeyRequired == <<"UPSTAGE_API_KEY environment variable is required">>

\* mutant: the credential is not checked before the upstream call
parseDocumentWithUpstage_NoKeyCheck(file, apiKey, up) ==
    IF up.kind = "networkError" THEN Thrown(up.message, 1)
    ELSE IF ~ResponseOk(up.status)
        THEN Thrown(<<"Upstage API error: ", ToString(up.status), " - ", up.body.value>>, 1)
    ELSE IF up.body.kind # "json" THEN Thrown(<<"Unexpected token < in JSON">>, 1)
    ELSE Returned(up.body.value, 1)

\* mutant: a request the network failed is sent a second time
parseDocumentWithUpstage_RetryOnce(file, apiKey, up) ==
    IF apiKey = "" THEN Thrown(KeyRequired, 0)
    ELSE IF up.kind = "networkError" THEN Thrown(up.message, 2)
    ELSE IF ~ResponseOk(up.status)
        THEN Thrown(<<"Upstage API error: ", ToString(up.status), " - ", up.body.value>>, 1)
    ELSE IF up.body.kind # "json" THEN Thrown(<<"Unexpected token < in JSON">>, 1)
    ELSE Returned(up.body.value, 1)

parseDocumentWithUpstage(file, apiKey, up) ==
    IF apiKey = "" THEN Thrown(KeyRequired, 0)
    ELSE IF up.kind = "networkError" THEN Thrown(up.message, 1)
    ELSE IF ~ResponseOk(up.status)
        THEN Thrown(<<"Upstage API error: ", ToString(up.status), " - ", up.body.value>>, 1)
    ELSE IF up.body.kind # "json" THEN Thrown(<<"Unexpected token < in JSON">>, 1)
    ELSE Returned(up.body.value, 1)

Reply(status, body, calls) == [status |-> status, body |-> body, calls |-> calls]

UploadSuccessBody(file, type, parseResult) ==
    [kind |-> "object",
     success |-> TRUE,
     message |-> <<type, " uploaded and parsed successfully">>,
     fileName |-> file.name,
     fileSize |-> file.size,
     documentType |-> type,
     parsedContent |->
        [text |-> OrElse(parseResult.content.text, parseResult.content.html),
         html |-> parseResult.content.html,
         elements |-> parseResult.elements,
         pages |-> parseResult.usage.pages]]

\* mutant: the inner catch of the upload route drops the error's message
UploadParseFailure_NoDetails(message, calls) ==
    Reply(500, [kind |-> "object", error |-> "Failed to parse document"], calls)

UploadParseFailure(message, calls) ==
    Reply(500, [kind |-> "object", error |-> "Failed to parse document", details |-> message],
          calls)

UploadPOST(req, apiKey, up) ==
    IF req.kind = "malformed"
        THEN Reply(500, [kind |-> "object", error |-> "Failed to upload file"], 0)
    ELSE IF ~Truthy(req.file)
        THEN Reply(400, [kind |-> "object", error |-> "No file provided"], 0)
    ELSE IF ~Truthy(req.type) \/ req.type.value \notin Roles
        THEN Reply(400, [kind |-> "object", error |-> "Invalid document type"], 0)
    ELSE IF req.file.kind # "file"
        THEN Reply(500, [kind |-> "object", error |-> "Failed to upload file"], 0)
    ELSE IF ~isValidType(req.file)
        THEN Reply(400, [kind |-> "object",
                         error |-> "Only PDF, DOC, and DOCX files are supported"], 0)
    ELSE LET parsed == parseDocumentWithUpstage(req.file, apiKey, up)
         IN  IF ~parsed.ok THEN UploadParseFailure(parsed.message, parsed.calls)
             ELSE IF "content" \notin DOMAIN parsed.value
                 THEN UploadParseFailure(
                        <<"Cannot read properties of undefined (reading 'text')">>,
                        parsed.calls)
             ELSE Reply(200, UploadSuccessBody(req.file, req.type.value, parsed.value),
                        parsed.calls)

(***************************************************************************)
(* Analyze route: src/app/api/analyze/route.ts                             *)
(***************************************************************************)
\* request bodies: unreadable as JSON, or a JSON value
TextValues == {Undefined, NULL, JStr(""), JStr("ref text"), JStr("cust text")}

WithField(obj, name, v) ==
    IF v.kind = "undefined" THEN obj ELSE [x \in DOMAIN obj \cup {name} |->
                                              IF x = name THEN v ELSE obj[x]]

AnalyzeBody(r, c) ==
    WithField(WithField([kind |-> "object"], "referenceText", r), "customerText", c)

AnalyzeRequests ==
    {[kind |-> "malformed"], [kind |-> "json", value |-> NULL],
     [kind |-> "json", value |-> JNum(7)]}
    \cup { [kind |-> "json", value |-> AnalyzeBody(r, c)] :
             r \in TextValues, c \in TextValues }

\* the fallback object of the analyze route (mockAnalysis)
mockAnalysis ==
    [kind |-> "object",
     sections |->
        << [title |-> "1. Definitions", match |-> 90,
            differences |-> "Minor wording differences, but substantially the same meaning"],
           [title |-> "2. Confidential Information", match |-> 75,
            differences |-> "Customer NDA requires written authorization for any use"],
           [title |-> "3. Term and Termination", match |-> 60,
            differences |-> "Customer NDA extends term to 5 years with automatic renewal"] >>,
     risks |->
        << [section |-> "5. Term and Termination", severity |-> "high",
            title |-> "Extended Term Duration",
            description |-> "The customer NDA extends the term to 5 years with automatic renewal",
            recommendation |-> "Negotiate to reduce term to 3 years and remove automatic renewal"],
           [section |-> "4. Indemnification", severity |-> "medium",
            title |-> "Broad Indemnification Clause",
            description |-> "Customer NDA includes broader indemnification requirements",
            recommendation |-> "Consider mutual indemnification or limit scope"] >>,
     summary |->
        [overallRisk |-> "high",
         keyIssues |-> <<"Extended term", "Indemnification clause", "Jurisdiction requirements">>,
         recommendation |-> "Negotiate key terms before signing. Pay special attention to term duration and indemnification clauses."],
     error |-> "Analysis performed with fallback system due to AI service unavailability"]

\* message contents the chat-completion service can send back
ModelContents ==
    { "", "I cannot help with that.", "null", "42", "{}", "{\"sections\":[]}",
      "{\"sections\":[{\"title\":\"1. Term\",\"match\":80,\"differences\":\"none\"}],\"risks\":[{\"section\":\"1. Term\",\"severity\":\"low\",\"title\":\"t\",\"description\":\"d\",\"recommendation\":\"r\"}],\"summary\":{\"overallRisk\":\"low\",\"keyIssues\":[],\"recommendation\":\"sign\"}}",
      "{\"sections\":[{\"title\":\"1. Term\",\"match\":150,\"differences\":\"none\"}],\"risks\":[{\"section\":\"1. Term\",\"severity\":\"critical\",\"title\":\"t\",\"description\":\"d\",\"recommendation\":\"r\"}],\"summary\":{\"overallRisk\":\"severe\",\"keyIssues\":[],\"recommendation\":\"sign\"}}" }

ParsedSection(match) == [title |-> "1. Term", match |-> match, differences |-> "none"]

ParsedRisk(severity) ==
    [section |-> "1. Term", severity |-> severity, title |-> "t", description |-> "d",
     recommendation |-> "r"]

ParsedResult(match, severity, overallRisk) ==
    [kind |-> "object",
     sections |-> <<ParsedSection(match)>>,
     risks |-> <<ParsedRisk(severity)>>,
     summary |-> [overallRisk |-> overallRisk, keyIssues |-> <<>>, recommendation |-> "sign"]]

SyntaxError == [kind |-> "SyntaxError"]

\* the JSON text of an uploaded document, as session storage would hold it
UploadedDocJson ==
    "{\"fileName\":\"nda.pdf\",\"documentType\":\"referenceNda\",\"parsedContent\":{\"text\":\"nda\",\"html\":\"<p>nda</p>\"}}"

\* JSON.parse on the contents above: the value the text denotes, or a SyntaxError
JSONParse(text) ==
    CASE text = "null" -> NULL
      [] text = "42" -> JNum(42)
      [] text = "{}" -> [kind |-> "object"]
      [] text = UploadedDocJson
            -> [kind |-> "object", fileName |-> "nda.pdf", documentType |-> "referenceNda",
                parsedContent |-> [text |-> "nda", html |-> "<p>nda</p>"]]
      [] text = "{\"sections\":[]}" -> [kind |-> "object", sections |-> <<>>]
      [] text = "{\"sections\":[{\"title\":\"1. Term\",\"match\":80,\"differences\":\"none\"}],\"risks\":[{\"section\":\"1. Term\",\"severity\":\"low\",\"title\":\"t\",\"description\":\"d\",\"recommendation\":\"r\"}],\"summary\":{\"overallRisk\":\"low\",\"keyIssues\":[],\"recommendation\":\"sign\"}}"
            -> ParsedResult(80, "low", "low")
      [] text = "{\"sections\":[{\"title\":\"1. Term\",\"match\":150,\"differences\":\"none\"}],\"risks\":[{\"section\":\"1. Term\",\"severity\":\"critical\",\"title\":\"t\",\"description\":\"d\",\"recommendation\":\"r\"}],\"summary\":{\"overallRisk\":\"severe\",\"keyIssues\":[],\"recommendation\":\"sign\"}}"
            -> ParsedResult(150, "critical", "severe")
      [] OTHER -> SyntaxError

\* bodies of a 2xx reply of the chat-completion service
ChatBodies ==
    { [kind |-> "text", value |-> "<html>gateway</html>"],
      [kind |-> "json", value |-> NULL],
      [kind |-> "json", value |-> [kind |-> "object", id |-> "cmpl-1"]],
      [kind |-> "json", value |-> [kind |-> "object", choices |-> <<>>]],
      [kind |-> "json", value |-> [kind |-> "object", choices |-> <<[index |-> 0]>>]] }
    \cup { [kind |-> "json",
            value |-> [kind |-> "object",
                       choices |-> <<[index |-> 0,
                                      message |-> [role |-> "assistant", content |-> c]]>>]] :
             c \in ModelContents }

ChatOutcomes ==
    {NetworkError} \cup ErrorReplies
    \cup { [kind |-> "response", status |-> 200, body |-> b] : b \in ChatBodies }

\* the body of the request sent to the chat-completion service
ChatRequest(referenceText, customerText) ==
    [model |-> "solar-pro2-preview",
     messages |-> <<[role |-> "system"],
                    [role |-> "user", reference |-> referenceText, customer |-> customerText]>>,
     reasoning_effort |-> "high",
     stream |-> FALSE]

analyzeWithSolarLLM(referenceText, customerText, apiKey, up) ==
    IF apiKey = "" THEN Thrown(KeyRequired, 0)
    ELSE IF up.kind = "networkError" THEN Thrown(up.message, 1)
    ELSE IF ~ResponseOk(up.status)
        THEN Thrown(<<"Upstage SolarLLM API error: ", ToString(up.status), " - ",
                      up.body.value>>, 1)
    ELSE IF up.body.kind # "json" THEN Thrown(<<"Unexpected token < in JSON">>, 1)
    ELSE LET result == up.body.value
         IN  IF result.kind = "null"
                 THEN Thrown(<<"Cannot read properties of null (reading 'choices')">>, 1)
             ELSE IF "choices" \notin DOMAIN result \/ Len(result.choices) = 0
                 THEN Thrown(<<"No response from SolarLLM">>, 1)
             ELSE IF "message" \notin DOMAIN result.choices[1]
                 THEN Thrown(<<"Cannot read properties of undefined (reading 'content')">>, 1)
             ELSE LET parsed == JSONParse(result.choices[1].message.content)
                  IN  IF parsed.kind = "SyntaxError"
                          THEN Thrown(<<"LLM response was not valid JSON">>, 1)
                      ELSE Returned(parsed, 1)

\* mutant: the inner catch of the analyze route surfaces the failure
AnalyzeFallbackReply_Surfaced(calls) ==
    Reply(500, [kind |-> "object", error |-> "Failed to analyze NDAs"], calls)

\* mutant: the inner catch of the analyze route returns the error marker alone
AnalyzeFallbackReply_MarkerOnly(calls) ==
    Reply(200, [kind |-> "object", error |-> mockAnalysis.error], calls)

\* the inner catch of the analyze route: the fallback object, with status 200
AnalyzeFallbackReply(calls) == Reply(200, mockAnalysis, calls)

AnalyzePOST(req, apiKey, up) ==
    IF req.kind = "malformed" \/ req.value.kind = "null"
        THEN Reply(500, [kind |-> "object", error |-> "Failed to analyze NDAs"], 0)
    ELSE LET referenceText == Field(req.value, "referenceText")
             customerText == Field(req.value, "customerText")
         IN  IF ~Truthy(referenceText) \/ ~Truthy(customerText)
                 THEN Reply(400, [kind |-> "object",
                                  error |-> "Both reference and customer NDA texts are required"],
                            0)
             ELSE LET analysis == analyzeWithSolarLLM(referenceText.value, customerText.value,
                                                      apiKey, up)
                  IN  IF analysis.ok THEN Reply(200, analysis.value, analysis.calls)
                      ELSE AnalyzeFallbackReply(analysis.calls)

(***************************************************************************)
(* Browser side: inputs of the home page.                                  *)
(***************************************************************************)
\* the files a user picks in the file dialog of a slot
SelectableFiles ==
    { [kind |-> "file", name |-> <<"nda", "pdf">>, type |-> <<"application/", "pdf">>,
       size |-> 1],
      [kind |-> "file", name |-> <<"nda", "txt">>, type |-> <<"text/", "plain">>,
       size |-> 1] }

\* what the document-digitization service does with an upload of the home page
PageDocOutcomes ==
    { NetworkError,
      [kind |-> "response", status |-> 500,
       body |-> [kind |-> "text", value |-> "upstream failure"]],
      [kind |-> "response", status |-> 200,
       body |-> [kind |-> "json",
                 value |-> [kind |-> "object",
                            content |-> [html |-> "<p>nda</p>", markdown |-> "", text |-> "nda"],
                            elements |-> <<Element>>,
                            usage |-> [pages |-> 1]]]],
      [kind |-> "response", status |-> 200,
       body |-> [kind |-> "json",
                 value |-> [kind |-> "object",
                            content |-> [html |-> "", markdown |-> "", text |-> ""],
                            elements |-> <<>>,
                            usage |-> [pages |-> 1]]]] }

\* what the chat-completion service does with an analysis of the home page
PageChatOutcomes ==
    { NetworkError,
      [kind |-> "response", status |-> 200,
       body |-> [kind |-> "json", value |-> [kind |-> "object", choices |-> <<>>]]] }
    \cup { [kind |-> "response", status |-> 200,
            body |-> [kind |-> "json",
                      value |-> [kind |-> "object",
                                 choices |-> <<[index |-> 0,
                                                message |-> [role |-> "assistant",
                                                             content |-> c]]>>]]] :
             c \in ModelContents \ {"", "42", "{\"sections\":[]}"} }

(***************************************************************************)
(* State.                                                                  *)
(***************************************************************************)
VARIABLES
    http,               \* the exchange a route handles: request, environment, reply
    file,               \* FileUpload: file, per slot
    uploading,          \* FileUpload: uploading, per slot
    uploadStatus,       \* FileUpload: uploadStatus, per slot
    uploadResult,       \* FileUpload: uploadResult, per slot
    abortControllerRef, \* FileUpload: whether abortControllerRef.current is set
    upload,             \* the handleUpload call in flight of a slot: where it awaits,
                        \* its signal, the response it has received
    referenceNda,       \* Home: referenceNda
    customerNda,        \* Home: customerNda
    analyzing,          \* Home: analyzing
    analysisError,      \* Home: analysisError
    analysisResult,     \* Home: analysisResult
    analysisStep,       \* Home: analysisStep
    analysis,           \* the handleCompareDocuments call in flight: where it awaits,
                        \* the request body it captured, the response it has received
    comparison,         \* ComparisonPage: session storage, data, loading, route
    component           \* a display function of the result components: its arguments
                        \* and, once applied, its result

apiVars == <<http>>

viewVars == <<comparison, component>>

slotVars == <<file, uploading, uploadStatus, uploadResult, abortControllerRef, upload>>

homeVars == <<referenceNda, customerNda, analyzing, analysisError, analysisResult,
              analysisStep, analysis>>

vars == <<http, file, uploading, uploadStatus, uploadResult, abortControllerRef, upload,
          referenceNda, customerNda, analyzing, analysisError, analysisResult,
          analysisStep, analysis, comparison, component>>

Pending == [kind |-> "pending"]

NoCall == [pc |-> "none", aborted |-> FALSE, sent |-> 0, response |-> NULL]

NoAnalysis == [pc |-> "none", body |-> NULL, sent |-> <<>>, response |-> NULL]

\* the home page as mounted: useState / useRef initial values
InitPage ==
    /\ file = [s \in Roles |-> NULL]
    /\ uploading = [s \in Roles |-> FALSE]
    /\ uploadStatus = [s \in Roles |-> "idle"]
    /\ uploadResult = [s \in Roles |-> NULL]
    /\ abortControllerRef = [s \in Roles |-> FALSE]
    /\ upload = [s \in Roles |-> NoCall]
    /\ referenceNda = NULL
    /\ customerNda = NULL
    /\ analyzing = FALSE
    /\ analysisError = NULL
    /\ analysisResult = NULL
    /\ analysisStep = ""
    /\ analysis = NoAnalysis

\* the browser is at the home page, and no display function is being applied
InitViews ==
    /\ comparison = [route |-> "/"]
    /\ component = [fn |-> "none"]

(***************************************************************************)
(* The two routes, each handling one request to its reply.                 *)
(***************************************************************************)
Exchange(endpoint, req, apiKey, modelName, up) ==
    [endpoint |-> endpoint, request |-> req, apiKey |-> apiKey, modelName |-> modelName,
     upstream |-> up, sent |-> <<>>, reply |-> Pending]

\* a request has arrived at one of the two routes
InitApi ==
    /\ http \in { Exchange("upload", req, apiKey, "", up) :
                    req \in UploadRequests, apiKey \in ApiKeys, up \in DocOutcomes }
                \cup { Exchange("analyze", req, apiKey, modelName, up) :
                    req \in AnalyzeRequests, apiKey \in ApiKeys,
                    modelName \in ModelNames, up \in ChatOutcomes }
    /\ InitPage
    /\ InitViews

\* POST /api/upload handles the request to its reply
UploadRoute ==
    /\ http.endpoint = "upload"
    /\ http.reply = Pending
    /\ http' = [http EXCEPT !.reply = UploadPOST(http.request, http.apiKey, http.upstream)]
    /\ UNCHANGED <<viewVars, slotVars, homeVars>>

\* POST /api/analyze handles the request to its reply; the request it sent to the
\* chat-completion service, if it sent one, is kept with the exchange
AnalyzeRoute ==
    /\ http.endpoint = "analyze"
    /\ http.reply = Pending
    /\ LET reply == AnalyzePOST(http.request, http.apiKey, http.upstream)
       IN  http' = [http EXCEPT
                      !.reply = reply,
                      !.sent = IF reply.calls = 0 THEN <<>>
                               ELSE <<ChatRequest(http.request.value.referenceText.value,
                                                  http.request.value.customerText.value)>>]
    /\ UNCHANGED <<viewVars, slotVars, homeVars>>

ApiNext == UploadRoute \/ AnalyzeRoute

SpecApi == InitApi /\ [][ApiNext]_vars

(***************************************************************************)
(* FileUpload: src/unnamed/part_001 (components/file-upload.tsx)           *)
(***************************************************************************)
AbortError == [name |-> "AbortError", message |-> "The user aborted a request."]

FetchFailed == [name |-> "TypeError", message |-> "Failed to fetch"]

BodyUnreadable == [name |-> "SyntaxError", message |-> "Unexpected end of JSON input"]

\* the slot's view state: uploading, or else its uploadStatus
SlotState(s) == IF uploading[s] THEN "uploading" ELSE uploadStatus[s]

\* the multipart form handleUpload posts for the slot
UploadForm(s) == [kind |-> "form", file |-> file[s], type |-> JStr(s)]

\* the object the catch block stores for an aborted request
CancelledResult(s) ==
    [kind |-> "object", success |-> FALSE, message |-> <<"Upload cancelled">>,
     fileName |-> file[s].name, fileSize |-> file[s].size, documentType |-> s,
     error |-> "Upload was cancelled by user"]

\* the object the catch block stores for any other error
FailedResult(s, error) ==
    [kind |-> "object", success |-> FALSE, message |-> <<"Upload failed">>,
     fileName |-> file[s].name, fileSize |-> file[s].size, documentType |-> s,
     error |-> error.message]

\* mutant: the finally block leaves uploading as it is
Finally_KeepsUploading(s) ==
    /\ UNCHANGED uploading
    /\ abortControllerRef' = [abortControllerRef EXCEPT ![s] = FALSE]
    /\ upload' = [upload EXCEPT ![s] = NoCall]

\* the finally block of handleUpload
Finally(s) ==
    /\ uploading' = [uploading EXCEPT ![s] = FALSE]
    /\ abortControllerRef' = [abortControllerRef EXCEPT ![s] = FALSE]
    /\ upload' = [upload EXCEPT ![s] = NoCall]

\* mutant: the catch block sets the status of both slots
Catch_AllSlots(s, error) ==
    /\ uploadStatus' = [t \in Roles |->
                           IF error.name = "AbortError" THEN "cancelled" ELSE "error"]
    /\ uploadResult' = [uploadResult EXCEPT ![s] =
                           IF error.name = "AbortError" THEN CancelledResult(s)
                           ELSE FailedResult(s, error)]
    /\ Finally(s)

\* the catch block of handleUpload, then finally
Catch(s, error) ==
    /\ uploadStatus' = [uploadStatus EXCEPT ![s] =
                           IF error.name = "AbortError" THEN "cancelled" ELSE "error"]
    /\ uploadResult' = [uploadResult EXCEPT ![s] =
                           IF error.name = "AbortError" THEN CancelledResult(s)
                           ELSE FailedResult(s, error)]
    /\ Finally(s)

\* what an await of the call can reject with
Rejections(s) == {FetchFailed} \cup (IF upload[s].aborted THEN {AbortError} ELSE {})

\* result.success of a parsed reply body
Succeeded(result) == "success" \in DOMAIN result /\ result.success

\* mutant: the document is stored as the reference document whatever its role
handleUploadComplete_AnyRole(result) ==
    IF Succeeded(result) /\ "parsedContent" \in DOMAIN result
    THEN /\ referenceNda' = [kind |-> "object",
                             fileName |-> result.fileName,
                             documentType |-> result.documentType,
                             parsedContent |-> result.parsedContent]
         /\ UNCHANGED customerNda
    ELSE UNCHANGED <<referenceNda, customerNda>>

\* Home.handleUploadComplete: src/app/page.tsx
handleUploadComplete(result) ==
    IF Succeeded(result) /\ "parsedContent" \in DOMAIN result
    THEN LET uploadedDoc == [kind |-> "object",
                             fileName |-> result.fileName,
                             documentType |-> result.documentType,
                             parsedContent |-> result.parsedContent]
         IN  /\ referenceNda' = IF result.documentType = "referenceNda"
                                   THEN uploadedDoc ELSE referenceNda
             /\ customerNda' = IF result.documentType # "referenceNda"
                                  /\ result.documentType = "customerNda"
                                  THEN uploadedDoc ELSE customerNda
    ELSE UNCHANGED <<referenceNda, customerNda>>

\* a file is picked in the slot's dialog: handleFileChange, then handleUpload up to
\* its first await (the input is disabled while uploading)
handleFileChange(s) ==
    /\ ~uploading[s]
    /\ \E selectedFile \in SelectableFiles :
          file' = [file EXCEPT ![s] = selectedFile]
    /\ uploading' = [uploading EXCEPT ![s] = TRUE]
    /\ uploadStatus' = [uploadStatus EXCEPT ![s] = "idle"]
    /\ uploadResult' = [uploadResult EXCEPT ![s] = NULL]
    /\ abortControllerRef' = [abortControllerRef EXCEPT ![s] = TRUE]
    /\ upload' = [upload EXCEPT ![s] = [pc |-> "fetch", aborted |-> FALSE, sent |-> 1,
                                        response |-> NULL]]
    /\ UNCHANGED <<apiVars, viewVars, homeVars>>

\* the fetch of /api/upload resolves with the route's reply; handleUpload runs on to
\* the abort check and, when it passes, to the await of response.json()
FetchResolves(s) ==
    /\ upload[s].pc = "fetch"
    /\ \E apiKey \in ApiKeys, up \in PageDocOutcomes :
          IF upload[s].aborted
          THEN /\ Finally(s)
               /\ UNCHANGED <<uploadStatus, uploadResult>>
          ELSE /\ upload' = [upload EXCEPT ![s] =
                               [pc |-> "json", aborted |-> FALSE, sent |-> upload[s].sent,
                                response |-> UploadPOST(UploadForm(s), apiKey, up)]]
               /\ UNCHANGED <<uploading, uploadStatus, uploadResult, abortControllerRef>>
    /\ UNCHANGED <<apiVars, viewVars, file, homeVars>>

\* the fetch rejects: catch, finally
FetchRejects(s) ==
    /\ upload[s].pc = "fetch"
    /\ \E error \in Rejections(s) : Catch(s, error)
    /\ UNCHANGED <<apiVars, viewVars, file, homeVars>>

\* response.json() resolves: the result is applied, the parent notified; finally
JsonResolves(s) ==
    /\ upload[s].pc = "json"
    /\ LET result == upload[s].response.body
       IN  /\ uploadStatus' = [uploadStatus EXCEPT ![s] =
                                  IF Succeeded(result) THEN "success" ELSE "error"]
           /\ uploadResult' = [uploadResult EXCEPT ![s] = result]
           /\ IF Succeeded(result) THEN handleUploadComplete(result)
              ELSE UNCHANGED <<referenceNda, customerNda>>
    /\ Finally(s)
    /\ UNCHANGED <<apiVars, viewVars, file, analyzing, analysisError, analysisResult, analysisStep,
                   analysis>>

\* response.json() rejects: catch, finally
JsonRejects(s) ==
    /\ upload[s].pc = "json"
    /\ \E error \in {BodyUnreadable} \cup (Rejections(s) \ {FetchFailed}) : Catch(s, error)
    /\ UNCHANGED <<apiVars, viewVars, file, homeVars>>

\* the Cancel button, shown while a file is set and uploading
handleCancel(s) ==
    /\ file[s] # NULL
    /\ uploading[s]
    /\ upload' = [upload EXCEPT ![s].aborted = abortControllerRef[s] \/ @]
    /\ UNCHANGED <<apiVars, viewVars, file, uploading, uploadStatus, uploadResult, abortControllerRef,
                   homeVars>>

\* mutant: the reset leaves the upload status as it was
resetUpload_KeepsStatus(s) ==
    /\ file[s] # NULL
    /\ ~uploading[s]
    /\ upload' = [upload EXCEPT ![s].aborted = abortControllerRef[s] \/ @]
    /\ file' = [file EXCEPT ![s] = NULL]
    /\ uploadResult' = [uploadResult EXCEPT ![s] = NULL]
    /\ uploading' = [uploading EXCEPT ![s] = FALSE]
    /\ UNCHANGED <<apiVars, viewVars, uploadStatus, abortControllerRef, homeVars>>

\* the Change File / Try Again button, shown while a file is set and not uploading
resetUpload(s) ==
    /\ file[s] # NULL
    /\ ~uploading[s]
    /\ upload' = [upload EXCEPT ![s].aborted = abortControllerRef[s] \/ @]
    /\ file' = [file EXCEPT ![s] = NULL]
    /\ uploadStatus' = [uploadStatus EXCEPT ![s] = "idle"]
    /\ uploadResult' = [uploadResult EXCEPT ![s] = NULL]
    /\ uploading' = [uploading EXCEPT ![s] = FALSE]
    /\ UNCHANGED <<apiVars, viewVars, abortControllerRef, homeVars>>

(***************************************************************************)
(* Home: src/app/page.tsx                                                  *)
(***************************************************************************)
\* mutant: the button is enabled also while an analysis is in flight
canAnalyze_WhileAnalyzing == referenceNda # NULL /\ customerNda # NULL

canAnalyze == referenceNda # NULL /\ customerNda # NULL /\ ~analyzing

\* mutant: html || text
DocumentText_HtmlFirst(doc) == OrElse(doc.parsedContent.html, doc.parsedContent.text)

\* the text of a stored document as sent for analysis: text || html
DocumentText(doc) == OrElse(doc.parsedContent.text, doc.parsedContent.html)

\* the finally block of handleCompareDocuments
AnalysisFinally ==
    /\ analyzing' = FALSE
    /\ analysisStep' = ""
    /\ analysis' = NoAnalysis

\* the catch block of handleCompareDocuments, then finally
AnalysisCatch(message) ==
    /\ analysisError' = JStr(message)
    /\ AnalysisFinally
    /\ UNCHANGED analysisResult

\* mutant: the error of the previous analysis is not cleared
handleCompareDocuments_KeepsError ==
    /\ canAnalyze
    /\ analyzing' = TRUE
    /\ analysisResult' = NULL
    /\ analysisStep' = "Preparing documents for analysis..."
    /\ analysis' = [pc |-> "timer",
                    body |-> AnalyzeBody(JStr(DocumentText(referenceNda)),
                                         JStr(DocumentText(customerNda))),
                    sent |-> <<>>,
                    response |-> NULL]
    /\ UNCHANGED <<apiVars, viewVars, slotVars, referenceNda, customerNda, analysisError>>

\* the Compare Documents button (disabled unless canAnalyze): handleCompareDocuments
\* up to the await of the 500 ms timer
handleCompareDocuments ==
    /\ canAnalyze
    /\ analyzing' = TRUE
    /\ analysisError' = NULL
    /\ analysisResult' = NULL
    /\ analysisStep' = "Preparing documents for analysis..."
    /\ analysis' = [pc |-> "timer",
                    body |-> AnalyzeBody(JStr(DocumentText(referenceNda)),
                                         JStr(DocumentText(customerNda))),
                    sent |-> <<>>,
                    response |-> NULL]
    /\ UNCHANGED <<apiVars, viewVars, slotVars, referenceNda, customerNda>>

\* the timer fires: the request to /api/analyze is sent
AnalysisRequestSent ==
    /\ analysis.pc = "timer"
    /\ analysisStep' = "Sending documents to SolarLLM for analysis..."
    /\ analysis' = [analysis EXCEPT
                      !.pc = "fetch",
                      !.sent = Append(@, [kind |-> "json", value |-> analysis.body])]
    /\ UNCHANGED <<apiVars, viewVars, slotVars, referenceNda, customerNda, analyzing, analysisError,
                   analysisResult>>

\* the fetch of /api/analyze resolves with the route's reply
AnalysisFetchResolves ==
    /\ analysis.pc = "fetch"
    /\ \E apiKey \in ApiKeys, up \in PageChatOutcomes :
          LET response == AnalyzePOST(analysis.sent[Len(analysis.sent)], apiKey, up)
          IN  IF ~ResponseOk(response.status)
              THEN AnalysisCatch(<<"Analysis failed: ", ToString(response.status)>>)
              ELSE /\ analysisStep' = "Processing analysis results..."
                   /\ analysis' = [analysis EXCEPT !.pc = "json", !.response = response]
                   /\ UNCHANGED <<analyzing, analysisError, analysisResult>>
    /\ UNCHANGED <<apiVars, viewVars, slotVars, referenceNda, customerNda>>

\* the fetch of /api/analyze rejects
AnalysisFetchRejects ==
    /\ analysis.pc = "fetch"
    /\ AnalysisCatch(<<FetchFailed.message>>)
    /\ UNCHANGED <<apiVars, viewVars, slotVars, referenceNda, customerNda>>

\* mutant: a result that carries an error field is treated as a failure
AnalysisJsonResolves_ErrorField ==
    /\ analysis.pc = "json"
    /\ IF "error" \in DOMAIN analysis.response.body
       THEN AnalysisCatch(<<"Analysis failed">>)
       ELSE /\ analysisResult' = analysis.response.body
            /\ AnalysisFinally
            /\ UNCHANGED analysisError
    /\ UNCHANGED <<apiVars, viewVars, slotVars, referenceNda, customerNda>>

\* response.json() resolves: the result is stored
AnalysisJsonResolves ==
    /\ analysis.pc = "json"
    /\ analysisResult' = analysis.response.body
    /\ AnalysisFinally
    /\ UNCHANGED <<apiVars, viewVars, slotVars, referenceNda, customerNda, analysisError>>

\* response.json() rejects
AnalysisJsonRejects ==
    /\ analysis.pc = "json"
    /\ AnalysisCatch(<<BodyUnreadable.message>>)
    /\ UNCHANGED <<apiVars, viewVars, slotVars, referenceNda, customerNda>>

\* the results section is rendered
ResultsShown == Truthy(analysisResult) /\ referenceNda # NULL /\ customerNda # NULL

\* the New Comparison button of the results section
resetAnalysis ==
    /\ ResultsShown
    /\ analysisResult' = NULL
    /\ analysisError' = NULL
    /\ UNCHANGED <<apiVars, viewVars, slotVars, referenceNda, customerNda, analyzing, analysisStep,
                   analysis>>

Init ==
    /\ http = [endpoint |-> "none"]
    /\ InitPage
    /\ InitViews

Next ==
    \/ \E s \in Roles : handleFileChange(s)
    \/ \E s \in Roles : FetchResolves(s)
    \/ \E s \in Roles : FetchRejects(s)
    \/ \E s \in Roles : JsonResolves(s)
    \/ \E s \in Roles : JsonRejects(s)
    \/ \E s \in Roles : handleCancel(s)
    \/ \E s \in Roles : resetUpload(s)
    \/ handleCompareDocuments
    \/ AnalysisRequestSent
    \/ AnalysisFetchResolves
    \/ AnalysisFetchRejects
    \/ AnalysisJsonResolves
    \/ AnalysisJsonRejects
    \/ resetAnalysis

Spec == Init /\ [][Next]_vars

\* the whole system: a session of the home page, or a request put to a route directly
SystemNext ==
    \/ (http.endpoint = "none" /\ Next)
    \/ ApiNext

SpecSystem == (Init \/ InitApi) /\ [][SystemNext]_vars

\* a pending await of the slot's handleUpload call settles
Settles(s) == FetchResolves(s) \/ FetchRejects(s) \/ JsonResolves(s) \/ JsonRejects(s)

\* the upload slots alone
UploadsNext ==
    \/ \E s \in Roles : handleFileChange(s)
    \/ \E s \in Roles : Settles(s)
    \/ \E s \in Roles : handleCancel(s)
    \/ \E s \in Roles : resetUpload(s)

\* the upload slots, where every pending request of a slot settles in the end
SpecUploads ==
    /\ Init
    /\ [][UploadsNext]_vars
    /\ \A s \in Roles : WF_vars(Settles(s))

(***************************************************************************)
(* RiskAnalysis: src/components/risk-analysis.tsx                          *)
(***************************************************************************)
\* values of summary.overallRisk, the schema's three and others
OverallRisks == {"low", "medium", "high", "critical", "severe", "High", ""}

\* mutant: the weights of medium and high are exchanged
getRiskProgress_Exchanged(overallRisk) ==
    CASE overallRisk = "low" -> 25
      [] overallRisk = "medium" -> 85
      [] overallRisk = "high" -> 60
      [] OTHER -> 50

getRiskProgress(overallRisk) ==
    CASE overallRisk = "low" -> 25
      [] overallRisk = "medium" -> 60
      [] overallRisk = "high" -> 85
      [] OTHER -> 50

\* the progress bar of the overall risk is rendered
RenderRiskProgress ==
    /\ component.fn = "getRiskProgress"
    /\ component.result = Pending
    /\ component' = [component EXCEPT !.result = JNum(getRiskProgress(component.overallRisk))]
    /\ UNCHANGED <<apiVars, comparison, slotVars, homeVars>>

(***************************************************************************)
(* ComparisonView.getSectionContent: src/components/comparison-view.tsx    *)
(*                                                                         *)
(* Here a string is the sequence of its characters, each a one-character   *)
(* string; a character outside ASCII is written by its code point, as in   *)
(* "U+BE44".                                                               *)
(***************************************************************************)
Whitespace == {" ", "\n", "\t"}

UpperCaseLetters ==
    <<"A", "B", "C", "D", "E", "F", "G", "H", "I", "J", "K", "L", "M", "N", "O", "P", "Q",
      "R", "S", "T", "U", "V", "W", "X", "Y", "Z">>

LowerCaseLetters ==
    <<"a", "b", "c", "d", "e", "f", "g", "h", "i", "j", "k", "l", "m", "n", "o", "p", "q",
      "r", "s", "t", "u", "v", "w", "x", "y", "z">>

\* String.toLowerCase
LowerCased(s) ==
    [i \in 1..Len(s) |->
        IF \E n \in 1..Len(UpperCaseLetters) : UpperCaseLetters[n] = s[i]
        THEN LowerCaseLetters[CHOOSE n \in 1..Len(UpperCaseLetters) : UpperCaseLetters[n] = s[i]]
        ELSE s[i]]

\* String.includes
IncludesString(s, needle) ==
    \E i \in 0..(Len(s) - Len(needle)) : SubSeq(s, i + 1, i + Len(needle)) = needle

\* String.trim
Trim(s) ==
    LET inked == {i \in 1..Len(s) : s[i] \notin Whitespace}
    IN  IF inked = {} THEN <<>>
        ELSE SubSeq(s, CHOOSE i \in inked : \A j \in inked : i <= j,
                       CHOOSE i \in inked : \A j \in inked : j <= i)

\* text.replace(/\s+/g, ' '): every run of whitespace becomes one space
CollapseWhitespace(s) ==
    LET kept == SelectSeq([i \in 1..Len(s) |-> i],
                          LAMBDA i : ~(s[i] \in Whitespace /\ i > 1 /\ s[i - 1] \in Whitespace))
    IN  [k \in 1..Len(kept) |-> IF s[kept[k]] \in Whitespace THEN " " ELSE s[kept[k]]]

SentenceEnds == {".", "!", "?"}

\* s.split(/[.!?]+/): the pieces between the runs of sentence ends, the empty piece
\* before a leading run and after a trailing one included
Split(s) ==
    LET starts == SelectSeq([i \in 1..(Len(s) + 1) |-> i],
                            LAMBDA i : \/ i = 1
                                       \/ /\ s[i - 1] \in SentenceEnds
                                          /\ (i = Len(s) + 1 \/ s[i] \notin SentenceEnds))
        PieceEnd(i) == LET stops == {k \in i..Len(s) : s[k] \in SentenceEnds}
                       IN  IF stops = {} THEN Len(s)
                           ELSE (CHOOSE k \in stops : \A j \in stops : k <= j) - 1
    IN  [n \in 1..Len(starts) |-> SubSeq(s, starts[n], PieceEnd(starts[n]))]

\* pieces.join(separator)
RECURSIVE Join(_, _)
Join(pieces, separator) ==
    IF pieces = <<>> THEN <<>>
    ELSE IF Len(pieces) = 1 THEN pieces[1]
    ELSE pieces[1] \o separator \o Join(Tail(pieces), separator)

\* Array.slice(start, end)
Slice(pieces, start, end) ==
    SubSeq(pieces, start + 1, IF end < Len(pieces) THEN end ELSE Len(pieces))

\* the sentences of the text: cleanText split, the pieces of more than 10 characters
Sentences(text) ==
    SelectSeq(Split(Trim(CollapseWhitespace(text))),
              LAMBDA s : Len(Trim(s)) > 10)

\* sectionKeywords, in the order of its entries
sectionKeywords ==
    << [key |-> <<"C", "o", "n", "f", "i", "d", "e", "n", "t", "i", "a", "l">>,
        keywords |->
          <<<<"c", "o", "n", "f", "i", "d", "e", "n", "t", "i", "a", "l">>,
            <<"i", "n", "f", "o", "r", "m", "a", "t", "i", "o", "n">>,
            <<"p", "r", "o", "p", "r", "i", "e", "t", "a", "r", "y">>,
            <<"s", "e", "c", "r", "e", "t">>,
            <<"U+BE44", "U+BC00">>,
            <<"U+C815", "U+BCF4">>>>],
       [key |-> <<"D", "e", "f", "i", "n", "i", "t", "i", "o", "n">>,
        keywords |->
          <<<<"m", "e", "a", "n", "s">>,
            <<"d", "e", "f", "i", "n", "e", "d">>,
            <<"i", "n", "c", "l", "u", "d", "e">>,
            <<"d", "e", "f", "i", "n", "i", "t", "i", "o", "n">>,
            <<"U+C758", "U+BBF8">>,
            <<"U+C815", "U+C758">>>>],
       [key |-> <<"N", "o", "n", "-", "D", "i", "s", "c", "l", "o", "s", "u", "r", "e">>,
        keywords |->
          <<<<"d", "i", "s", "c", "l", "o", "s", "e">>,
            <<"d", "i", "s", "c", "l", "o", "s", "u", "r", "e">>,
            <<"s", "h", "a", "r", "e">>,
            <<"r", "e", "v", "e", "a", "l">>,
            <<"U+ACF5", "U+AC1C">>,
            <<"U+B204", "U+C124">>>>],
       [key |-> <<"O", "b", "l", "i", "g", "a", "t", "i", "o", "n">>,
        keywords |->
          <<<<"o", "b", "l", "i", "g", "a", "t", "i", "o", "n">>,
            <<"d", "u", "t", "y">>,
            <<"r", "e", "s", "p", "o", "n", "s", "i", "b", "i", "l", "i", "t", "y">>,
            <<"s", "h", "a", "l", "l">>,
            <<"U+C758", "U+BB34">>,
            <<"U+CC45", "U+C784">>>>],
       [key |-> <<"E", "x", "c", "e", "p", "t", "i", "o", "n">>,
        keywords |->
          <<<<"e", "x", "c", "e", "p", "t", "i", "o", "n">>,
            <<"e", "x", "c", "l", "u", "d", "e">>,
            <<"p", "u", "b", "l", "i", "c">>,
            <<"k", "n", "o", "w", "n">>,
            <<"U+C608", "U+C678">>,
            <<"U+C81C", "U+C678">>>>],
       [key |-> <<"T", "e", "r", "m">>,
        keywords |->
          <<<<"t", "e", "r", "m">>,
            <<"p", "e", "r", "i", "o", "d">>,
            <<"d", "u", "r", "a", "t", "i", "o", "n">>,
            <<"e", "x", "p", "i", "r", "e">>,
            <<"U+AE30", "U+AC04">>,
            <<"U+B9CC", "U+B8CC">>>>],
       [key |-> <<"R", "e", "t", "u", "r", "n">>,
        keywords |->
          <<<<"r", "e", "t", "u", "r", "n">>,
            <<"d", "e", "s", "t", "r", "o", "y">>,
            <<"d", "e", "s", "t", "r", "u", "c", "t", "i", "o", "n">>,
            <<"U+BC18", "U+D658">>,
            <<"U+D30C", "U+AE30">>>>],
       [key |-> <<"I", "n", "t", "e", "l", "l", "e", "c", "t", "u", "a", "l">>,
        keywords |->
          <<<<"i", "n", "t", "e", "l", "l", "e", "c", "t", "u", "a", "l">>,
            <<"p", "r", "o", "p", "e", "r", "t", "y">>,
            <<"p", "a", "t", "e", "n", "t">>,
            <<"t", "r", "a", "d", "e", "m", "a", "r", "k">>,
            <<"U+C9C0", "U+C801">>,
            <<"U+C7AC", "U+C0B0">>>>],
       [key |-> <<"R", "e", "m", "e", "d", "y">>,
        keywords |->
          <<<<"r", "e", "m", "e", "d", "y">>,
            <<"d", "a", "m", "a", "g", "e", "s">>,
            <<"i", "n", "j", "u", "n", "c", "t", "i", "o", "n">>,
            <<"r", "e", "l", "i", "e", "f">>,
            <<"U+AD6C", "U+C81C">>,
            <<"U+C190", "U+D574">>>>],
       [key |-> <<"T", "e", "r", "m", "i", "n", "a", "t", "i", "o", "n">>,
        keywords |->
          <<<<"t", "e", "r", "m", "i", "n", "a", "t", "i", "o", "n">>,
            <<"t", "e", "r", "m", "i", "n", "a", "t", "e">>,
            <<"e", "n", "d">>,
            <<"U+C885", "U+B8CC">>,
            <<"U+D574", "U+C9C0">>>>],
       [key |-> <<"G", "o", "v", "e", "r", "n", "i", "n", "g">>,
        keywords |->
          <<<<"g", "o", "v", "e", "r", "n", "i", "n", "g">>,
            <<"l", "a", "w">>,
            <<"j", "u", "r", "i", "s", "d", "i", "c", "t", "i", "o", "n">>,
            <<"c", "o", "u", "r", "t">>,
            <<"U+C900", "U+AC70", "U+BC95">>,
            <<"U+AD00", "U+D560">>>>]>>


\* relevantKeywords: the keywords of the first entry whose key occurs in the title
RelevantKeywords(sectionTitle) ==
    LET hits == {n \in 1..Len(sectionKeywords) :
                    IncludesString(LowerCased(sectionTitle), LowerCased(sectionKeywords[n].key))}
    IN  IF hits = {} THEN <<>>
        ELSE sectionKeywords[CHOOSE n \in hits : \A m \in hits : n <= m].keywords

\* relevantSentences
RelevantSentences(sentences, keywords) ==
    SelectSeq(sentences,
              LAMBDA s : \E k \in 1..Len(keywords) :
                            IncludesString(LowerCased(s), LowerCased(keywords[k])))

\* sections.findIndex(s => s.title === sectionTitle)
FindIndex(sections, sectionTitle) ==
    LET hits == {n \in 1..Len(sections) : sections[n].title = sectionTitle}
    IN  IF hits = {} THEN -1 ELSE (CHOOSE n \in hits : \A m \in hits : n <= m) - 1

ContentNotAvailable ==
    <<"C", "o", "n", "t", "e", "n", "t", " ", "n", "o", "t", " ", "a", "v", "a", "i", "l",
      "a", "b", "l", "e">>

\* `Section content from ${documentType} NDA...`
SectionContentFrom(documentType) ==
    <<"S", "e", "c", "t", "i", "o", "n", " ", "c", "o", "n", "t", "e", "n", "t", " ", "f",
      "r", "o", "m", " ">>
    \o documentType \o <<" ", "N", "D", "A", ".", ".", ".">>

getSectionContent(text, sectionTitle, documentType, sections) ==
    IF text = <<>> THEN ContentNotAvailable
    ELSE LET sentences == Sentences(text)
         IN  IF Len(sentences) = 0 THEN ContentNotAvailable
             ELSE LET relevantSentences ==
                          RelevantSentences(sentences, RelevantKeywords(sectionTitle))
                      sectionIndex == FindIndex(sections, sectionTitle)
                      startIndex == IF sectionIndex * 2 > 0 THEN sectionIndex * 2 ELSE 0
                      contentToShow ==
                          IF Len(relevantSentences) > 0 THEN Slice(relevantSentences, 0, 2)
                          ELSE Slice(sentences, startIndex, startIndex + 2)
                      result == Trim(Join(contentToShow, <<".", " ">>))
                  IN  IF Len(result) > 300 THEN SubSeq(result, 1, 300) \o <<".", ".", ".">>
                      ELSE IF result # <<>> THEN result
                      ELSE SectionContentFrom(documentType)

\* document texts

BlankText ==
    <<" ", " ", "\n", " ", " ">>

ShortText ==
    <<"T", "o", "o", " ", "s", "h", "o", "r", "t", ".", " ", "T", "i", "n", "y", "!", " ",
      "N", "o", "?">>

EdgeText ==
    <<"a", "b", "c", "d", "e", "f", "g", "h", "i", "j", ".", " ", "a", "b", "c", "d", "e",
      "f", "g", "h", "i", "j", "k", ".">>

AgreementText ==
    <<"T", "h", "e", " ", "t", "e", "r", "m", " ", "o", "f", " ", "t", "h", "i", "s", " ",
      "a", "g", "r", "e", "e", "m", "e", "n", "t", " ", "i", "s", " ", "f", "i", "v", "e",
      " ", "y", "e", "a", "r", "s", ".", " ", " ", "E", "a", "c", "h", " ", "p", "a", "r",
      "t", "y", " ", "s", "h", "a", "l", "l", " ", "k", "e", "e", "p", "\n", "a", "l", "l",
      " ", "d", "a", "t", "a", " ", "S", "E", "C", "R", "E", "T", "!", " ", "C", "o", "n",
      "f", "i", "d", "e", "n", "t", "i", "a", "l", " ", "i", "n", "f", "o", "r", "m", "a",
      "t", "i", "o", "n", " ", "m", "e", "a", "n", "s", " ", "a", "n", "y", " ", "d", "a",
      "t", "a", " ", "d", "i", "s", "c", "l", "o", "s", "e", "d", "?", " ", "T", "h", "e",
      " ", "g", "o", "v", "e", "r", "n", "i", "n", "g", " ", "l", "a", "w", " ", "i", "s",
      " ", "t", "h", "a", "t", " ", "o", "f", " ", "K", "o", "r", "e", "a", ".", " ", "E",
      "i", "t", "h", "e", "r", " ", "p", "a", "r", "t", "y", " ", "m", "a", "y", " ", "t",
      "e", "r", "m", "i", "n", "a", "t", "e", " ", "e", "a", "r", "l", "y", ".", " ", "N",
      "o", "t", "i", "c", "e", "s", " ", "a", "r", "e", " ", "s", "e", "n", "t", " ", "b",
      "y", " ", "r", "e", "g", "i", "s", "t", "e", "r", "e", "d", " ", "m", "a", "i", "l",
      ".">>

KoreanText ==
    <<"U+BCF8", " ", "U+ACC4", "U+C57D", "U+C758", " ", "U+BE44", "U+BC00", " ", "U+C815",
      "U+BCF4", "U+B294", " ", "U+ACF5", "U+AC1C", "U+D558", "U+C9C0", " ", "U+C544",
      "U+B2C8", "U+D55C", "U+B2E4", ".", " ", "U+BCF8", " ", "U+ACC4", "U+C57D", "U+C758",
      " ", "U+C874", "U+C18D", " ", "U+AE30", "U+AC04", "U+C740", " ", "U+C624", " ",
      "U+B144", "U+C73C", "U+B85C", " ", "U+D55C", "U+B2E4", ".">>

\* piece written n times
RECURSIVE Repeated(_, _)
Repeated(piece, n) == IF n = 0 THEN <<>> ELSE piece \o Repeated(piece, n - 1)

\* a single sentence of more than 300 characters
LongText ==
    <<"T", "h", "e", " ", "t", "e", "r", "m", " ", "o", "f", " ", "t", "h", "e", " ", "a",
      "g", "r", "e", "e", "m", "e", "n", "t">>
    \o Repeated(<<" ", "a", "n", "d", " ", "e", "v", "e", "r", "y", " ", "f", "u", "r", "t",
               "h", "e", "r", " ", "p", "e", "r", "i", "o", "d">>, 12)
    \o <<".">>

DocumentTexts ==
    {<<>>, BlankText, ShortText, EdgeText, AgreementText, KoreanText, LongText}

\* the fallback sections of ComparisonView, and the sections of an analysis result
SectionLists ==
    { << [title |-> <<"1", ".", " ", "D", "e", "f", "i", "n", "i", "t", "i", "o", "n",
                        "s">>],
         [title |-> <<"2", ".", " ", "C", "o", "n", "f", "i", "d", "e", "n", "t", "i",
                        "a", "l", " ", "I", "n", "f", "o", "r", "m", "a", "t", "i", "o",
                        "n">>],
         [title |-> <<"3", ".", " ", "T", "e", "r", "m", " ", "a", "n", "d", " ", "T",
                        "e", "r", "m", "i", "n", "a", "t", "i", "o", "n">>] >>,
      << [title |-> <<"4", ".", " ", "G", "o", "v", "e", "r", "n", "i", "n", "g", " ",
                        "L", "a", "w">>],
         [title |-> <<"9", ".", " ", "M", "i", "s", "c", "e", "l", "l", "a", "n", "e",
                        "o", "u", "s">>],
         [title |-> <<"T", "E", "R", "M", "I", "N", "A", "T", "I", "O", "N">>],
         [title |-> <<"9", ".", " ", "M", "i", "s", "c", "e", "l", "l", "a", "n", "e",
                        "o", "u", "s">>],
         [title |-> <<"1", "0", ".", " ", "N", "o", "t", "i", "c", "e", "s">>] >> }

DocumentTypes ==
    { <<"r", "e", "f", "e", "r", "e", "n", "c", "e">>,
      <<"c", "u", "s", "t", "o", "m", "e", "r">> }

\* sections.map((section, index) => ...): the text of the section at index is rendered
\* for one of the two documents
RenderSectionContent ==
    /\ component.fn = "getSectionContent"
    /\ component.result = Pending
    /\ LET section == component.sections[component.index + 1]
       IN  component' = [component EXCEPT
                           !.result = JStr(getSectionContent(component.text, section.title,
                                                             component.documentType,
                                                             component.sections))]
    /\ UNCHANGED <<apiVars, comparison, slotVars, homeVars>>

(***************************************************************************)
(* ComparisonPage: src/app/comparison/page.tsx                             *)
(***************************************************************************)
StorageKeys == {"analysisResult", "referenceNda", "customerNda"}

\* what sessionStorage.getItem can return for a key: null, or the string stored
StorageItems ==
    {NULL, JStr(""), JStr("null"), JStr("{}"), JStr(UploadedDocJson),
     JStr("I cannot help with that.")}

\* mutant: the effect does not look for missing items (JSON.parse(null) is null)
LoadedData_NoMissingCheck(storage) ==
    LET parsed == [k \in StorageKeys |->
                      IF storage[k] = NULL THEN NULL ELSE JSONParse(storage[k].value)]
    IN  IF \E k \in StorageKeys : parsed[k] = SyntaxError
            THEN [data |-> NULL, route |-> "/"]
        ELSE [data |-> [kind |-> "object",
                        analysisResult |-> parsed["analysisResult"],
                        referenceNda |-> parsed["referenceNda"],
                        customerNda |-> parsed["customerNda"]],
              route |-> "/comparison"]

\* the try block of the effect: the data it sets, and the route it leaves the browser at
LoadedData(storage) ==
    IF \E k \in StorageKeys : ~Truthy(storage[k])
        THEN [data |-> NULL, route |-> "/"]
    ELSE LET parsed == [k \in StorageKeys |-> JSONParse(storage[k].value)]
         IN  IF \E k \in StorageKeys : parsed[k] = SyntaxError
                 THEN [data |-> NULL, route |-> "/"]
             ELSE [data |-> [kind |-> "object",
                             analysisResult |-> parsed["analysisResult"],
                             referenceNda |-> parsed["referenceNda"],
                             customerNda |-> parsed["customerNda"]],
                   route |-> "/comparison"]

\* data.referenceNda.fileName and referenceNda.parsedContent.text can be read
Readable(doc) == doc # NULL /\ "parsedContent" \in DOMAIN doc

\* what ComparisonPage renders: the spinner, nothing, the results, or a TypeError
\* when a document is null or has no parsedContent
Rendered ==
    IF comparison.route # "/comparison" THEN "home"
    ELSE IF comparison.loading THEN "loading"
    ELSE IF comparison.data = NULL THEN "nothing"
    ELSE IF ~Readable(comparison.data.referenceNda) \/ ~Readable(comparison.data.customerNda)
        THEN "TypeError"
    ELSE "results"

\* the effect of ComparisonPage after its first render, up to finally
LoadComparison ==
    /\ comparison.route = "/comparison"
    /\ comparison.loading
    /\ LET loaded == LoadedData(comparison.storage)
       IN  comparison' = [comparison EXCEPT !.data = loaded.data, !.route = loaded.route,
                                            !.loading = FALSE]
    /\ UNCHANGED <<apiVars, component, slotVars, homeVars>>

\* the New Comparison button of the comparison page
handleNewComparison ==
    /\ Rendered = "results"
    /\ comparison' = [comparison EXCEPT !.storage = [k \in StorageKeys |-> NULL],
                                         !.route = "/"]
    /\ UNCHANGED <<apiVars, component, slotVars, homeVars>>

\* the browser opens /comparison, or a result component is given its arguments
InitView ==
    /\ http = [endpoint |-> "none"]
    /\ InitPage
    /\ \/ /\ comparison \in { [route |-> "/comparison", storage |-> s, data |-> NULL,
                                  loading |-> TRUE] : s \in [StorageKeys -> StorageItems] }
          /\ component = [fn |-> "none"]
       \/ /\ comparison = [route |-> "/"]
          /\ component \in
                { [fn |-> "getRiskProgress", overallRisk |-> r, result |-> Pending] :
                    r \in OverallRisks }
                \cup
                UNION { { [fn |-> "getSectionContent", text |-> t[1], documentType |-> t[2],
                           sections |-> t[3], index |-> i, result |-> Pending] :
                            i \in 0..(Len(t[3]) - 1) } :
                        t \in DocumentTexts \X DocumentTypes \X SectionLists }

ViewNext ==
    \/ LoadComparison
    \/ handleNewComparison
    \/ RenderRiskProgress
    \/ RenderSectionContent

SpecView == InitView /\ [][ViewNext]_vars

(***************************************************************************)
(* Properties of the home page and its upload slots (under Spec).          *)
(***************************************************************************)
\* the document the page stores for a role
StoredDocument(s) == IF s = "referenceNda" THEN referenceNda ELSE customerNda

\* C1: the Compare Documents action is enabled if and only if both upload slots are in
\* the success state and no analysis is in flight.
C1_CompareGatedOnSlots ==
    canAnalyze <=> /\ \A s \in Roles : SlotState(s) = "success"
                   /\ ~analyzing

\* C2: when the abort of an upload has fired, the slot is in the cancelled state once
\* the call has ended, whichever way its request settled.
C2_CancelledAfterAbort ==
    [][\A s \in Roles :
          (upload[s].aborted /\ upload'[s].pc = "none")
              => (~uploading'[s] /\ uploadStatus'[s] = "cancelled")]_vars

\* C3: once the abort of an upload has fired, no step sets the slot to success, stores
\* a success payload as its upload result, or changes the document the page stores
\* for the slot's role.
C3_ResponseDiscardedAfterAbort ==
    [][\A s \in Roles :
          upload[s].aborted
              => /\ uploadStatus'[s] # "success"
                 /\ ~Succeeded(uploadResult'[s])
                 /\ StoredDocument(s)' = StoredDocument(s)]_vars

(***************************************************************************)
(* Properties of the two routes (under SpecApi).                           *)
(***************************************************************************)
Handled(endpoint) == http.endpoint = endpoint /\ http.reply # Pending

\* the request body of the analyze route cannot be read as a JSON value
Unreadable(req) == req.kind = "malformed"

\* a text field is absent from a JSON body, or empty
TextMissing(body, name) ==
    \/ body.kind # "object"
    \/ name \notin DOMAIN body
    \/ body[name] \in {NULL, JStr("")}

AnyTextMissing(req) ==
    \/ Unreadable(req)
    \/ TextMissing(req.value, "referenceText")
    \/ TextMissing(req.value, "customerText")

NotDestructurable(req) == Unreadable(req) \/ req.value = NULL

NotJsonContents == {"", "I cannot help with that."}

ModelAnswered(apiKey, up) ==
    /\ apiKey # ""
    /\ up.kind = "response"
    /\ up.status = 200
    /\ up.body.kind = "json"
    /\ up.body.value.kind = "object"
    /\ "choices" \in DOMAIN up.body.value
    /\ Len(up.body.value.choices) > 0
    /\ "message" \in DOMAIN up.body.value.choices[1]
    /\ up.body.value.choices[1].message.content \notin NotJsonContents

C5_FallbackOnFailure ==
    (/\ Handled("analyze")
     /\ ~AnyTextMissing(http.request)
     /\ ~ModelAnswered(http.apiKey, http.upstream))
        => /\ http.reply.status = 200
           /\ http.reply.body = mockAnalysis
           /\ "error" \in DOMAIN http.reply.body
           /\ http.reply.body.error # ""
           /\ {"sections", "risks", "summary"} \subseteq DOMAIN http.reply.body

\* C5 witness: the model's content was not JSON and the fallback was returned
C5_Witness ==
    /\ Handled("analyze")
    /\ ~AnyTextMissing(http.request)
    /\ http.apiKey # ""
    /\ http.upstream.kind = "response"
    /\ http.upstream.status = 200
    /\ http.upstream.body.kind = "json"
    /\ http.upstream.body.value.kind = "object"
    /\ "choices" \in DOMAIN http.upstream.body.value
    /\ Len(http.upstream.body.value.choices) > 0
    /\ "message" \in DOMAIN http.upstream.body.value.choices[1]
    /\ http.upstream.body.value.choices[1].message.content = "I cannot help with that."
    /\ http.reply.body = mockAnalysis

\* C6: every analyze request whose JSON body lacks referenceText or customerText, or
\* holds an empty one, is answered 400 without a call to the chat-completion service.
C6_MissingTextIs400 ==
    (/\ Handled("analyze")
     /\ ~Unreadable(http.request)
     /\ AnyTextMissing(http.request))
        => /\ http.reply.status = 400
           /\ http.reply.calls = 0

RiskLevels == {"low", "medium", "high"}

\* a JSON value that conforms to the AnalysisResult schema
SchemaConformant(v) ==
    /\ v.kind = "object"
    /\ {"sections", "risks", "summary"} \subseteq DOMAIN v
    /\ \A i \in DOMAIN v.sections : v.sections[i].match \in 0..100
    /\ \A i \in DOMAIN v.risks : v.risks[i].severity \in RiskLevels
    /\ v.summary.overallRisk \in RiskLevels

\* C7: every body the analyze route returns with status 200 is schema-conformant or
\* the full fallback object.
C7_NeverPartialResult ==
    (Handled("analyze") /\ http.reply.status = 200)
        => (SchemaConformant(http.reply.body) \/ http.reply.body = mockAnalysis)

\* the extension of a file name, whatever its case, is one of pdf, doc, docx
NamedPdfDocDocx(f) ==
    f.name[Len(f.name)] \in {"pdf", "PDF", "doc", "DOC", "docx", "DOCX"}

\* the media type is one of PDF, DOC, DOCX
TypedPdfDocDocx(f) ==
    f.type \in { <<"application/", "pdf">>, <<"application/", "msword">>,
                 <<"application/vnd.openxmlformats-officedocument.", "wordprocessingml",
                   ".document">> }

RoleMissingOrInvalid(req) == req.type = Absent \/ req.type.value \notin Roles

\* the cases of C8: no file, no valid role, or a file of an unsupported kind
RejectedUpload(req) ==
    /\ req.kind = "form"
    /\ \/ req.file \in {Absent, JStr("")}
       \/ RoleMissingOrInvalid(req)
       \/ (req.file.kind = "file" /\ ~NamedPdfDocDocx(req.file) /\ ~TypedPdfDocDocx(req.file))

ValidUpload(req) ==
    /\ req.kind = "form"
    /\ req.file.kind = "file"
    /\ ~RoleMissingOrInvalid(req)
    /\ (NamedPdfDocDocx(req.file) \/ TypedPdfDocDocx(req.file))

UpstreamRefused(up) == up.kind = "response" /\ ~ResponseOk(up.status)

\* C9: when the document-digitization service answers a valid upload with a
\* non-success status, the route answers 500 with the upstream status code and message
\* text in its body, and no parsedContent.
C9_UpstreamFailureIs500 ==
    (/\ Handled("upload")
     /\ ValidUpload(http.request)
     /\ http.apiKey # ""
     /\ UpstreamRefused(http.upstream))
        => /\ http.reply.status = 500
           /\ "details" \in DOMAIN http.reply.body
           /\ Includes(http.reply.body.details, ToString(http.upstream.status))
           /\ Includes(http.reply.body.details, http.upstream.body.value)
           /\ "parsedContent" \notin DOMAIN http.reply.body

\* C9 witness: the upstream answered 401 and the route answered 500
C9_Witness ==
    /\ Handled("upload")
    /\ ValidUpload(http.request)
    /\ http.apiKey # ""
    /\ UpstreamRefused(http.upstream)
    /\ http.upstream.status = 401
    /\ http.reply.status = 500

\* C10, as claimed: a request handled while the credential is missing is answered
\* with a 5xx status and causes no upstream call, at either route.
C10_MissingKeyIs5xx ==
    (http.reply # Pending /\ http.apiKey = "")
        => /\ http.reply.status \in 500..599
           /\ http.reply.calls = 0

\* C10, amended: while the credential is missing no upstream call is made; a valid
\* upload is answered 500, and a valid analyze request is answered 200 with the
\* fallback object.
C10_MissingKey ==
    (http.reply # Pending /\ http.apiKey = "")
        => /\ http.reply.calls = 0
           /\ (Handled("upload") /\ ValidUpload(http.request))
                  => (http.reply.status = 500 /\ ~Succeeded(http.reply.body))
           /\ (Handled("analyze") /\ ~AnyTextMissing(http.request))
                  => (http.reply.status = 200 /\ http.reply.body = mockAnalysis)

\* C10 witness: a valid analyze request was handled without the credential
C10_Witness ==
    /\ Handled("analyze")
    /\ http.apiKey = ""
    /\ ~AnyTextMissing(http.request)
    /\ http.reply.status = 200

\* the document-digitization service answered with a well-formed payload
WellFormedReply(up) ==
    /\ up.kind = "response"
    /\ up.status = 200
    /\ up.body.kind = "json"
    /\ up.body.value \in WellFormedPayloads

\* C11: a valid upload for which the document-digitization service returns a
\* well-formed payload is answered 200 with success true, the submitted role as
\* documentType, a non-empty parsedContent.text that is the upstream text when that is
\* non-empty and the upstream html otherwise, and html, elements and page count as the
\* service gave them.
C11_ParsedUploadIs200 ==
    (/\ Handled("upload")
     /\ ValidUpload(http.request)
     /\ http.apiKey # ""
     /\ WellFormedReply(http.upstream))
        => LET payload == http.upstream.body.value
               body == http.reply.body
           IN  /\ http.reply.status = 200
               /\ Succeeded(body)
               /\ body.documentType = http.request.type.value
               /\ body.parsedContent.text =
                      (IF payload.content.text # "" THEN payload.content.text
                       ELSE payload.content.html)
               /\ body.parsedContent.text # ""
               /\ body.parsedContent.html = payload.content.html
               /\ body.parsedContent.elements = payload.elements
               /\ body.parsedContent.pages = payload.usage.pages

\* C12: every reply body of the upload route carries a boolean success field, true
\* for a parsed upload (200) and false for every 400 and every 500.
C12_EveryBodyHasSuccess ==
    Handled("upload")
        => /\ "success" \in DOMAIN http.reply.body
           /\ http.reply.body.success \in BOOLEAN
           /\ http.reply.body.success <=> (http.reply.status = 200)

(***************************************************************************)
(* Further properties of the home page and its upload slots (under Spec).  *)
(***************************************************************************)
\* C13: New Comparison leaves no stored reference document, no stored customer
\* document and no analysis result, the analysis is idle, and Compare Documents is
\* disabled afterwards.
C13_NewComparisonClearsAll ==
    [][resetAnalysis
          => /\ referenceNda' = NULL
             /\ customerNda' = NULL
             /\ analysisResult' = NULL
             /\ ~analyzing'
             /\ ~canAnalyze']_vars

\* something the slot shows has changed in the step
SlotChanges(s) ==
    \/ SlotState(s)' # SlotState(s)
    \/ file'[s] # file[s]
    \/ uploadResult'[s] # uploadResult[s]

\* C14: Change File / Try Again aborts a request of the slot that is still in flight,
\* clears the slot's file and upload result and leaves the slot idle with uploading
\* false and no request of the slot left to complete; a slot without a file is idle,
\* and nothing but the next file selection changes it.
C14_ResetLeavesSlotIdle ==
    [][\A s \in Roles :
          /\ resetUpload(s)
                => /\ upload[s].pc # "none" => upload'[s].aborted
                   /\ upload'[s].pc = "none"
                   /\ file'[s] = NULL
                   /\ uploadResult'[s] = NULL
                   /\ uploadStatus'[s] = "idle"
                   /\ ~uploading'[s]
          /\ file'[s] = NULL
                => (SlotState(s)' = "idle" /\ upload'[s].pc = "none")
          /\ (file[s] = NULL /\ SlotChanges(s))
                => handleFileChange(s)]_vars

\* C14 witness: the reference slot was reset after its upload had succeeded
C14_Witness ==
    /\ referenceNda # NULL
    /\ file["referenceNda"] = NULL
    /\ SlotState("referenceNda") = "idle"
    /\ uploadResult["referenceNda"] = NULL

SlotStates == {"idle", "uploading", "success", "error", "cancelled"}

\* the changes of state C15 lists
ListedChange(from, to) ==
    \/ from = "idle" /\ to = "uploading"
    \/ from = "uploading" /\ to \in {"success", "error", "cancelled"}
    \/ from \in {"success", "error", "cancelled"} /\ to = "idle"

\* C15: each slot is always in one of idle, uploading, success, error, cancelled; every
\* change of a slot's state is idle to uploading, uploading to success, error or
\* cancelled, or success, error or cancelled to idle; and an upload begins only from
\* idle.
C15_ListedChangesOnly ==
    [][\A s \in Roles :
          /\ SlotState(s)' \in SlotStates
          /\ SlotState(s)' # SlotState(s) => ListedChange(SlotState(s), SlotState(s)')
          /\ handleFileChange(s) => SlotState(s) = "idle"]_vars

\* the upload of the slot is cancelled, fails or is reset in the step
CancelledFailedOrReset(s) ==
    \/ handleCancel(s)
    \/ resetUpload(s)
    \/ FetchRejects(s)
    \/ JsonRejects(s)
    \/ (FetchResolves(s) /\ upload[s].aborted)
    \/ (JsonResolves(s) /\ uploadStatus'[s] = "error")

\* C16: a step in which the upload of one slot is cancelled, fails or is reset changes
\* neither the other slot (its state, file, upload result, call in flight and stored
\* document) nor the analysis (its state, its request in flight, its result and error).
C16_OtherSlotAndAnalysisUntouched ==
    [][\A s \in Roles :
          CancelledFailedOrReset(s)
              => /\ \A o \in Roles \ {s} :
                       /\ SlotState(o)' = SlotState(o)
                       /\ uploadStatus'[o] = uploadStatus[o]
                       /\ file'[o] = file[o]
                       /\ uploadResult'[o] = uploadResult[o]
                       /\ upload'[o] = upload[o]
                       /\ StoredDocument(o)' = StoredDocument(o)
                 /\ analyzing' = analyzing
                 /\ analysis' = analysis
                 /\ analysisResult' = analysisResult
                 /\ analysisError' = analysisError]_vars

\* C16 witness: the reference upload ended cancelled while the customer slot shows its
\* success and an analysis is in flight
C16_Witness ==
    /\ uploadStatus["referenceNda"] = "cancelled"
    /\ ~uploading["referenceNda"]
    /\ SlotState("customerNda") = "success"
    /\ analysis.pc = "fetch"

\* the text of a stored document, its html when the text is empty
TextOrHtml(doc) ==
    IF doc.parsedContent.text # "" THEN doc.parsedContent.text ELSE doc.parsedContent.html

\* C17: a Compare trigger captures the texts of the two documents stored at that
\* moment (the html of a document whose text is empty); the one request the call sends
\* to the analyze endpoint carries them as referenceText and customerText; and the call
\* ends having sent exactly one request.
C17_OneRequestWithBothTexts ==
    [][/\ (~analyzing /\ analyzing')
             => /\ analysis'.sent = <<>>
                /\ analysis'.body = [kind |-> "object",
                                     referenceText |-> JStr(TextOrHtml(referenceNda)),
                                     customerText |-> JStr(TextOrHtml(customerNda))]
       /\ (analyzing' /\ analysis'.sent # analysis.sent)
             => /\ analysis.sent = <<>>
                /\ analysis'.sent = <<[kind |-> "json", value |-> analysis.body]>>
       /\ (analyzing /\ ~analyzing') => Len(analysis.sent) = 1]_vars

\* C17 witness: the request is out, with the text of the reference document and the
\* html of the customer document, whose text is empty
C17_Witness ==
    /\ analysis.pc = "fetch"
    /\ Len(analysis.sent) = 1
    /\ referenceNda.parsedContent.text = "nda"
    /\ customerNda.parsedContent.text = ""
    /\ analysis.sent[1].value.referenceText = JStr(referenceNda.parsedContent.text)
    /\ analysis.sent[1].value.customerText = JStr(customerNda.parsedContent.html)

\* what the page shows of the analysis
AnalysisState ==
    IF analyzing THEN "analyzing"
    ELSE IF Truthy(analysisResult) THEN "result"
    ELSE IF analysisError # NULL THEN "error"
    ELSE "idle"

\* C18: once Compare is triggered the page is analyzing; while the request is in
\* flight the page is analyzing and the trigger is disabled; when the call has ended
\* analyzing is false and the page is in the result or the error state.
C18_AnalysisEndsInResultOrError ==
    [][/\ (analysis.pc = "none" /\ analysis'.pc # "none") => AnalysisState' = "analyzing"
       /\ analysis'.pc # "none" => (analyzing' /\ ~canAnalyze')
       /\ analysis'.pc = "none" => ~analyzing'
       /\ (analysis.pc # "none" /\ analysis'.pc = "none")
             => AnalysisState' \in {"result", "error"}]_vars

(***************************************************************************)
(* Further properties of the two routes (under SpecApi).                   *)
(***************************************************************************)
\* C19: the model name of every request sent to the chat-completion service is
\* UPSTAGE_MODEL_NAME when that is set, and solar-pro2-preview when it is not.
C19_ModelNameFromEnvironment ==
    Handled("analyze")
        => \A i \in DOMAIN http.sent :
              http.sent[i].model =
                  (IF http.modelName # "" THEN http.modelName ELSE "solar-pro2-preview")

(***************************************************************************)
(* Properties of the whole system (under SpecSystem).                      *)
(***************************************************************************)
\* C20: a request handled by a route has caused at most one call to its upstream
\* service, also when the page sent it; a call of handleUpload or of
\* handleCompareDocuments sends at most one request; an upload request goes out only
\* in a file selection, and an analyze request only as the first request of a
\* Compare trigger.
C20_NoRetries ==
    [][/\ (http'.endpoint # "none" /\ http'.reply # Pending) => http'.reply.calls <= 1
       /\ \A s \in Roles :
             /\ upload'[s].response # NULL => upload'[s].response.calls <= 1
             /\ upload'[s].sent <= 1
             /\ upload'[s].sent > upload[s].sent => handleFileChange(s)
       /\ analysis'.response # NULL => analysis'.response.calls <= 1
       /\ Len(analysis'.sent) <= 1
       /\ Len(analysis'.sent) > Len(analysis.sent)
             => (analysis.pc = "timer" /\ analysis.sent = <<>>)]_vars

\* C20 witness: the reference upload ended cancelled and the analysis ended with the
\* fallback object; no call is in flight
C20_Witness ==
    /\ uploadStatus["referenceNda"] = "cancelled"
    /\ upload["referenceNda"] = NoCall
    /\ analysisResult = mockAnalysis
    /\ analysis = NoAnalysis

(***************************************************************************)
(* Further properties of the home page (under Spec).                       *)
(***************************************************************************)
\* the analyze request threw, or was answered with a non-OK status
AnalysisFailed ==
    \/ AnalysisFetchRejects
    \/ AnalysisJsonRejects
    \/ (AnalysisFetchResolves /\ analysis'.pc = "none")

\* C22: the call of an analysis ends in the error state exactly when the request threw
\* or was answered with a non-OK status, and in the result state exactly when it was
\* answered OK with a JSON body; in the error state no result is stored, and in the
\* result state no error.
C22_ErrorOrResultByReply ==
    [][(analysis.pc # "none" /\ analysis'.pc = "none")
          => /\ AnalysisState' = "error" <=> AnalysisFailed
             /\ AnalysisState' = "result" <=> AnalysisJsonResolves
             /\ AnalysisState' = "error" => analysisResult' = NULL
             /\ AnalysisState' = "result" => analysisError' = NULL]_vars

\* the request body made of the texts of the two documents
TextsOf(reference, customer) ==
    [kind |-> "object",
     referenceText |-> JStr(TextOrHtml(reference)),
     customerText |-> JStr(TextOrHtml(customer))]

\* C25: a result that comes to be shown was answered to a request carrying the texts of
\* the two documents stored at that moment, and while a result stays shown neither
\* stored document is replaced.
C25_ResultOfStoredDocuments ==
    [][/\ (analysis.pc = "json" /\ analysis'.pc = "none" /\ ResultsShown')
             => analysis.sent[1].value = TextsOf(referenceNda', customerNda')
       /\ (ResultsShown /\ ResultsShown' /\ analysisResult' = analysisResult)
             => (referenceNda' = referenceNda /\ customerNda' = customerNda)]_vars

\* the upload of the slot ends failed or cancelled, is cancelled, or the slot is reset
FailedCancelledOrReset(s) ==
    \/ FetchRejects(s)
    \/ JsonRejects(s)
    \/ (JsonResolves(s) /\ ~Succeeded(upload[s].response.body))
    \/ (FetchResolves(s) /\ upload[s].aborted)
    \/ handleCancel(s)
    \/ resetUpload(s)

\* C26: the document stored for a role changes only in the step in which an upload of
\* that role completes with success true and parsed content, and is then made of that
\* payload; an upload of the role that ends failed or cancelled, a reset of its slot,
\* and the completion of an upload of the other role leave it unchanged.
C26_DocumentChangesOnlyOnSuccess ==
    [][\A s \in Roles :
          /\ StoredDocument(s)' # StoredDocument(s)
                => /\ upload[s].pc = "json"
                   /\ upload'[s].pc = "none"
                   /\ LET result == upload[s].response.body
                      IN  /\ Succeeded(result)
                          /\ "parsedContent" \in DOMAIN result
                          /\ result.documentType = s
                          /\ StoredDocument(s)' = [kind |-> "object",
                                                   fileName |-> result.fileName,
                                                   documentType |-> result.documentType,
                                                   parsedContent |-> result.parsedContent]
          /\ FailedCancelledOrReset(s) => StoredDocument(s)' = StoredDocument(s)
          /\ \A o \in Roles \ {s} :
                JsonResolves(o) => StoredDocument(s)' = StoredDocument(s)]_vars

\* C26 witness: the reference document is stored, and a later upload of the reference
\* slot has ended in error
C26_Witness ==
    /\ referenceNda # NULL
    /\ uploadStatus["referenceNda"] = "error"
    /\ ~uploading["referenceNda"]
    /\ customerNda = NULL

\* C27: a call of handleCompareDocuments begins only while analyzing is false, and
\* while analyzing stays true the one request that has been sent stays the only one.
C27_OneAnalysisInFlight ==
    [][/\ (analysis'.pc = "timer" /\ analysis.pc # "timer") => ~analyzing
       /\ (analyzing /\ analyzing' /\ analysis.sent # <<>>) => analysis'.sent = analysis.sent
       /\ analyzing' => Len(analysis'.sent) <= 1]_vars

\* C27 witness: the request of an analysis is in flight while a slot is uploading
C27_Witness ==
    /\ analyzing
    /\ analysis.pc = "fetch"
    /\ Len(analysis.sent) = 1
    /\ uploading["customerNda"]

\* C28: analysisResult and analysisError are never both set, and while analyzing is
\* true both are null.
C28_ResultAndErrorExclusive ==
    /\ ~(analysisResult # NULL /\ analysisError # NULL)
    /\ analyzing => (analysisResult = NULL /\ analysisError = NULL)

\* C28 witness: an analysis has ended with an error
C28_Witness ==
    /\ ~analyzing
    /\ analysisError # NULL
    /\ analysisResult = NULL

\* C29: when the page has read a reply that is the fallback object, it stores it as
\* the analysis result and shows the results section; analysisError stays null, and the
\* page is in the result state.
C29_FallbackIsAResult ==
    [][(AnalysisJsonResolves /\ analysis.response.body = mockAnalysis)
          => /\ analysisResult' = mockAnalysis
             /\ analysisError' = NULL
             /\ ResultsShown'
             /\ AnalysisState' = "result"]_vars

\* C29 witness: the fallback object is shown as the result
C29_Witness ==
    /\ analysisResult = mockAnalysis
    /\ "error" \in DOMAIN analysisResult
    /\ analysisError = NULL
    /\ ResultsShown
    /\ ~analyzing

(***************************************************************************)
(* Termination of uploads (under SpecUploads).                             *)
(***************************************************************************)
\* C30: an upload that is in flight eventually is not: uploading becomes false, with
\* the slot's abort-controller reference cleared.
C30_UploadEnds ==
    \A s \in Roles : uploading[s] ~> (~uploading[s] /\ ~abortControllerRef[s])

\* C30 witness: an upload that was cancelled has ended
C30_Witness ==
    /\ uploadStatus["customerNda"] = "cancelled"
    /\ ~uploading["customerNda"]
    /\ ~abortControllerRef["customerNda"]
    /\ upload["customerNda"] = NoCall

(***************************************************************************)
(* Properties of the result components and the comparison page (under      *)
(* SpecView).                                                              *)
(***************************************************************************)
\* C21: the display weight of the overall risk is 25 for low, 60 for medium, 85 for
\* high and 50 for any other value; it is strictly increasing from low to medium to
\* high, and always within 0..100.
C21_RiskWeights ==
    (component.fn = "getRiskProgress" /\ component.result # Pending)
        => LET weight == component.result.value
               risk == component.overallRisk
           IN  /\ risk = "low" => weight = 25
               /\ risk = "medium" => weight = 60
               /\ risk = "high" => weight = 85
               /\ risk \notin {"low", "medium", "high"} => weight = 50
               /\ weight \in 0..100
               /\ getRiskProgress("low") < getRiskProgress("medium")
               /\ getRiskProgress("medium") < getRiskProgress("high")

\* C21 witness: the weight of a high overall risk was computed
C21_Witness ==
    /\ component.fn = "getRiskProgress"
    /\ component.overallRisk = "high"
    /\ component.result = JNum(85)

\* the item is stored and is the text of a JSON value
ParsesAsJson(item) == item # NULL /\ item.value \in {"null", "{}", UploadedDocJson}

\* C23: when the effect of the comparison page has run, loading is false; the page
\* shows results only if session storage holds all three items and each parses as
\* JSON; and if an item is missing or does not parse, the browser is sent to the home
\* page, no data is set and no result is shown.
C23_ResultsOnlyFromCompleteStorage ==
    [][(comparison.route = "/comparison" /\ comparison.loading /\ comparison' # comparison)
          => LET complete == \A k \in StorageKeys : ParsesAsJson(comparison.storage[k])
             IN  /\ ~comparison'.loading
                 /\ Rendered' = "results" => complete
                 /\ ~complete => /\ comparison'.route = "/"
                                 /\ comparison'.data = NULL
                                 /\ Rendered' # "results"]_vars

\* C23 witness: results are shown, from an analysis result stored as null and two
\* stored documents
C23_Witness ==
    /\ Rendered = "results"
    /\ comparison.storage["analysisResult"] = JStr("null")
    /\ comparison.storage["referenceNda"] = JStr(UploadedDocJson)

\* the excerpt shown for the sentences chosen: joined, trimmed, cut after 300 characters
Excerpt(chosen) ==
    LET joined == Trim(Join(chosen, <<".", " ">>))
    IN  IF Len(joined) > 300 THEN SubSeq(joined, 1, 300) \o <<".", ".", ".">> ELSE joined

\* the sentences of the text that contain a keyword of the first key, in the order of
\* the table, that occurs in the title whatever the case of its letters
MatchingSentences(text, title) ==
    LET occurring == {n \in 1..Len(sectionKeywords) :
                         IncludesString(LowerCased(title), LowerCased(sectionKeywords[n].key))}
        first == CHOOSE n \in occurring : \A m \in occurring : n <= m
    IN  IF occurring = {} THEN <<>>
        ELSE SelectSeq(Sentences(text),
                       LAMBDA s : \E k \in 1..Len(sectionKeywords[first].keywords) :
                                     IncludesString(LowerCased(s),
                                                    LowerCased(sectionKeywords[first].keywords[k])))

\* C24: the text rendered for a section is a non-empty string of at most 303
\* characters: the excerpt of the first two sentences that contain a keyword of the
\* first key of the table occurring in the section's title, whatever the case; when no
\* sentence does, the excerpt of the two sentences from offset 2 x (index of the
\* section) on; and a fixed placeholder when that yields nothing or the text has no
\* sentence of more than 10 characters
C24_SectionContent ==
    (component.fn = "getSectionContent" /\ component.result # Pending) =>
        LET result == component.result.value
            title == component.sections[component.index + 1].title
            sentences == Sentences(component.text)
            matching == MatchingSentences(component.text, title)
            offset == 2 * component.index
            fallback == Slice(sentences, offset, offset + 2)
            placeholders == {ContentNotAvailable, SectionContentFrom(component.documentType)}
        IN  /\ Len(result) \in 1..303
            /\ sentences = <<>> => result \in placeholders
            /\ (sentences # <<>> /\ matching # <<>>) => result = Excerpt(Slice(matching, 0, 2))
            /\ (sentences # <<>> /\ matching = <<>> /\ fallback # <<>>) =>
                   result = Excerpt(fallback)
            /\ (sentences # <<>> /\ matching = <<>> /\ fallback = <<>>) =>
                   result \in placeholders

====
